---------------------------- MODULE Spec2Model ----------------------------
(***************************************************************************)
(* Finance Dashboard: the quote-acquisition fallback chain of              *)
(* YahooFinanceClient (src/src/api.py), the symbol normalizer              *)
(* (src/src/util/util.py) and the portfolio store and valuator             *)
(* (src/src/portfolio.py), as a state machine over the three durable       *)
(* files: the cache file, the history file and the portfolio file.         *)
(*                                                                         *)
(* Python strings that the code inspects character by character (symbols)  *)
(* are sequences of one-character strings.  Optional values are records    *)
(* [isNone, val].  A datetime is a record [sec, us]; its two text forms    *)
(* are the tuples <<sec, us>> (isoformat) and <<sec>> (strftime with       *)
(* "%Y-%m-%d %H:%M:%S").                                                     *)
(***************************************************************************)
EXTENDS Integers, Sequences, FiniteSets, TLC

VARIABLES cacheFile, historyFile, portfolioFile, clock, last

vars == <<cacheFile, historyFile, portfolioFile, clock, last>>

---------------------------------------------------------------------------
(* Bounds of the model *)

\* upstream prices are drawn from 1..MaxPrice
MaxPrice == 2
\* datetime.now() is read at most MaxClock times in a behaviour
MaxClock == 2
\* clock ticks per second: the sub-second part of a datetime is 0..TicksPerSec-1
TicksPerSec == 2
\* the history file initially holds at most MaxInitRows rows
MaxInitRows == 1
\* the portfolio file holds at most MaxHoldings rows
MaxHoldings == 2
\* a daily series holds at most MaxPoints points
MaxPoints == 1
\* a holding is added with quantity 1..MaxQuantity
MaxQuantity == 1
\* a holding is added with buy price 0..MaxBuyPrice
MaxBuyPrice == 1

---------------------------------------------------------------------------
(* Strings: str.strip, str.lower, str.upper *)

LowerLetters == <<"a","b","c","d","e","f","g","h","i","j","k","l","m","n","o","p","q","r","s","t","u","v","w","x","y","z">>

UpperLetters == <<"A","B","C","D","E","F","G","H","I","J","K","L","M","N","O","P","Q","R","S","T","U","V","W","X","Y","Z">>

Whitespace == {" ", "\t", "\n"}

\* c.lower() and c.upper() of one character, as tables over the letters.
\* A character outside ASCII is written by its code point: "U+0131" is the
\* dotless small i, whose upper() is "I" and whose lower() is itself.
LowerTable == [c \in {UpperLetters[i] : i \in 1..Len(UpperLetters)} |->
                 LowerLetters[CHOOSE i \in 1..Len(UpperLetters) : UpperLetters[i] = c]]

UpperTable == [c \in {LowerLetters[i] : i \in 1..Len(LowerLetters)} |->
                 UpperLetters[CHOOSE i \in 1..Len(LowerLetters) : LowerLetters[i] = c]]
              @@ ("U+0131" :> "I")

LowerChar(c) == IF c \in DOMAIN LowerTable THEN LowerTable[c] ELSE c

UpperChar(c) == IF c \in DOMAIN UpperTable THEN UpperTable[c] ELSE c

lower(s) == [i \in 1..Len(s) |-> LowerChar(s[i])]

upper(s) == [i \in 1..Len(s) |-> UpperChar(s[i])]

RECURSIVE lstrip(_)
lstrip(s) == IF s # <<>> /\ Head(s) \in Whitespace THEN lstrip(Tail(s)) ELSE s

RECURSIVE rstrip(_)
rstrip(s) == IF s # <<>> /\ s[Len(s)] \in Whitespace THEN rstrip(SubSeq(s, 1, Len(s) - 1)) ELSE s

strip(s) == rstrip(lstrip(s))

---------------------------------------------------------------------------
(* Symbol normalization *)

\* the dict, as a function from key to value
SYMBOL_ALIASES ==
       (<<"b","t","c">> :> <<"B","T","C","-","U","S","D">>)
    @@ (<<"b","i","t","c","o","i","n">> :> <<"B","T","C","-","U","S","D">>)
    @@ (<<"e","t","h">> :> <<"E","T","H","-","U","S","D">>)
    @@ (<<"e","t","h","e","r","e","u","m">> :> <<"E","T","H","-","U","S","D">>)
    @@ (<<"e","g","l","d">> :> <<"E","G","L","D","-","U","S","D">>)
    @@ (<<"e","u","r","u","s","d">> :> <<"E","U","R","U","S","D","=","X">>)
    @@ (<<"e","u","r","-","u","s","d">> :> <<"E","U","R","U","S","D","=","X">>)
    @@ (<<"e","u","r","/","u","s","d">> :> <<"E","U","R","U","S","D","=","X">>)
    @@ (<<"u","s","d","r","u","b">> :> <<"U","S","D","R","U","B","=","X">>)
    @@ (<<"u","s","d","-","r","u","b">> :> <<"U","S","D","R","U","B","=","X">>)
    @@ (<<"u","s","d","/","r","u","b">> :> <<"U","S","D","R","U","B","=","X">>)
    @@ (<<"e","u","r","r","o","n">> :> <<"E","U","R","R","O","N","=","X">>)
    @@ (<<"e","u","r","-","r","o","n">> :> <<"E","U","R","R","O","N","=","X">>)
    @@ (<<"e","u","r","/","r","o","n">> :> <<"E","U","R","R","O","N","=","X">>)
    @@ (<<"u","s","d","r","o","n">> :> <<"U","S","D","R","O","N","=","X">>)
    @@ (<<"u","s","d","-","r","o","n">> :> <<"U","S","D","R","O","N","=","X">>)
    @@ (<<"n","v","i","d","i","a">> :> <<"N","V","D","A">>)
    @@ (<<"t","s","l","a">> :> <<"T","S","L","A">>)
    @@ (<<"a","a","p","l">> :> <<"A","A","P","L">>)
    @@ (<<"a","m","d">> :> <<"A","M","D">>)
    @@ (<<"m","s","f","t">> :> <<"M","S","F","T">>)

\* dict.get(key, default) on SYMBOL_ALIASES
AliasGet(key, default) ==
    IF key \in DOMAIN SYMBOL_ALIASES THEN SYMBOL_ALIASES[key] ELSE default

normalize_symbol(sym) ==
    LET s == lower(strip(sym))
    IN  AliasGet(s, upper(s))

---------------------------------------------------------------------------
(* datetime and its two text forms *)

\* datetime.now() when the clock shows tick t
Now(t) == [sec |-> t \div TicksPerSec, us |-> t % TicksPerSec]

isoformat(dt) == <<dt.sec, dt.us>>

fromisoformat(text) == [sec |-> text[1], us |-> text[2]]

\* strftime("%Y-%m-%d %H:%M:%S"): second resolution
strftime(dt) == <<dt.sec>>

strptime(text) == [sec |-> text[1], us |-> 0]

---------------------------------------------------------------------------
(* Optional values and the Quote dataclass *)

None == [isNone |-> TRUE, val |-> 0]

Some(v) == [isNone |-> FALSE, val |-> v]

Quote(symbol, price, change, change_percent, last_refreshed, source) ==
    [symbol |-> symbol, price |-> price, change |-> change,
     change_percent |-> change_percent, last_refreshed |-> last_refreshed,
     source |-> source]

---------------------------------------------------------------------------
(* The files *)

\* the empty dict {}
EmptyMap == [k \in {} |-> k]

\* cache file: kind "absent" (no file), "garbage" (json.loads raises),
\* "nonmap" (valid JSON that is not an object) or "map" (a JSON object)
CacheFile(kind, map) == [kind |-> kind, map |-> map]

\* history file: exists, and the rows after the header
HistoryFile(exists, rows) == [exists |-> exists, rows |-> rows]

\* portfolio file: exists, and the rows after the header
PortfolioFile(exists, rows) == [exists |-> exists, rows |-> rows]

---------------------------------------------------------------------------
(* Cache methods *)

\* the keys _load_cache reads from an entry
EntryKeys == {"symbol", "price", "change", "change_percent", "last_refreshed"}

\* _save_cache that starts from {} instead of the mapping in the file
_save_cache_fresh(symbol, quote, cf) ==
    IF cf.kind = "nonmap"
    THEN [raised |-> TRUE, file |-> cf]
    ELSE [raised |-> FALSE,
          file |-> CacheFile("map",
                     [k \in {symbol} |->
                        [symbol |-> quote.symbol, price |-> quote.price,
                         change |-> quote.change,
                         change_percent |-> quote.change_percent,
                         last_refreshed |-> isoformat(quote.last_refreshed),
                         source |-> quote.source]])]

\* _save_cache that writes the tag _load_cache gives instead of quote.source
_save_cache_retagged(symbol, quote, cf) ==
    IF cf.kind = "nonmap"
    THEN [raised |-> TRUE, file |-> cf]
    ELSE LET cache == IF cf.kind = "map" THEN cf.map ELSE EmptyMap
             entry == [symbol |-> quote.symbol, price |-> quote.price,
                       change |-> quote.change,
                       change_percent |-> quote.change_percent,
                       last_refreshed |-> isoformat(quote.last_refreshed),
                       source |-> "cache"]
         IN  [raised |-> FALSE,
              file |-> CacheFile("map",
                         [k \in DOMAIN cache \cup {symbol} |->
                            IF k = symbol THEN entry ELSE cache[k]])]

_save_cache(symbol, quote, cf) ==
    IF cf.kind = "nonmap"
    THEN \* cache[symbol] = ... on a list, string, number or null: TypeError
         [raised |-> TRUE, file |-> cf]
    ELSE LET cache == IF cf.kind = "map" THEN cf.map ELSE EmptyMap
             entry == [symbol |-> quote.symbol, price |-> quote.price,
                       change |-> quote.change,
                       change_percent |-> quote.change_percent,
                       last_refreshed |-> isoformat(quote.last_refreshed),
                       source |-> quote.source]
         IN  [raised |-> FALSE,
              file |-> CacheFile("map",
                         [k \in DOMAIN cache \cup {symbol} |->
                            IF k = symbol THEN entry ELSE cache[k]])]

_load_cache(symbol, cf) ==
    IF cf.kind = "map" /\ symbol \in DOMAIN cf.map
    THEN LET entry == cf.map[symbol]
         IN  IF EntryKeys \subseteq DOMAIN entry
             THEN Some(Quote(entry.symbol, entry.price, entry.change,
                             entry.change_percent,
                             fromisoformat(entry.last_refreshed), "cache"))
             ELSE None
    ELSE None

---------------------------------------------------------------------------
(* History methods *)

\* _save_history that opens the file with "w" instead of "a"
_save_history_truncating(quote, hf) ==
    HistoryFile(TRUE,
        << [symbol |-> quote.symbol, price |-> quote.price,
            change |-> quote.change,
            change_percent |-> quote.change_percent,
            timestamp |-> strftime(quote.last_refreshed),
            source |-> quote.source] >>)

\* _save_history that skips a quote whose symbol the last row already holds
_save_history_dedupe(quote, hf) ==
    IF hf.rows # <<>> /\ hf.rows[Len(hf.rows)].symbol = quote.symbol
    THEN hf
    ELSE HistoryFile(TRUE,
             Append(hf.rows,
                    [symbol |-> quote.symbol, price |-> quote.price,
                     change |-> quote.change,
                     change_percent |-> quote.change_percent,
                     timestamp |-> strftime(quote.last_refreshed),
                     source |-> quote.source]))

_save_history(quote, hf) ==
    HistoryFile(TRUE,
        Append(hf.rows,
               [symbol |-> quote.symbol, price |-> quote.price,
                change |-> quote.change,
                change_percent |-> quote.change_percent,
                timestamp |-> strftime(quote.last_refreshed),
                source |-> quote.source]))

\* for row in reversed(rows): if row["symbol"] == norm: return Quote(...)
find_latest(norm, hf) ==
    IF hf.exists /\ \E i \in 1..Len(hf.rows) : hf.rows[i].symbol = norm
    THEN LET i == CHOOSE j \in 1..Len(hf.rows) :
                     /\ hf.rows[j].symbol = norm
                     /\ \A k \in (j+1)..Len(hf.rows) : hf.rows[k].symbol # norm
             row == hf.rows[i]
         IN  Some(Quote(row.symbol, row.price, row.change, row.change_percent,
                        strptime(row.timestamp), "offline-history"))
    ELSE None

---------------------------------------------------------------------------
(* get_quote *)

\* lines 28-38: fast_info's lastPrice, then the one-day history bar
live_price(feed) ==
    IF feed.fast.kind = "raise"
    THEN [raised |-> TRUE, cause |-> "fast_info", price |-> None]
    ELSE LET price == IF feed.fast.kind = "missing" THEN None ELSE Some(feed.fast.price)
         IN  IF price.isNone \/ price.val = 0
             THEN IF feed.hist.kind = "raise"
                  THEN [raised |-> TRUE, cause |-> "history", price |-> None]
                  ELSE IF feed.hist.kind = "bar"
                       THEN [raised |-> FALSE, cause |-> "", price |-> Some(feed.hist.close)]
                       ELSE [raised |-> FALSE, cause |-> "", price |-> price]
             ELSE [raised |-> FALSE, cause |-> "", price |-> price]

\* lines 52-71: the except branch
fallback(symbol, cause, cf, hf) ==
    LET norm   == normalize_symbol(symbol)
        cached == _load_cache(norm, cf)
        row    == find_latest(norm, hf)
    IN  IF ~cached.isNone
        THEN [kind |-> "quote", quote |-> cached.val]
        ELSE IF ~row.isNone
             THEN [kind |-> "quote", quote |-> row.val]
             ELSE [kind |-> "raise", exc |-> "RuntimeError",
                   symbol |-> symbol, cause |-> cause]

\* get_quote that writes a quote recovered from the history log back to the cache
get_quote_recaching(symbol, feed, t, cf, hf) ==
    LET yf_symbol == normalize_symbol(symbol)
        live      == live_price(feed)
        offline   == fallback(symbol, live.cause, cf, hf)
    IN  IF live.raised
        THEN [ret |-> offline,
              cacheFile |-> IF offline.kind = "quote" /\ offline.quote.source = "offline-history"
                            THEN _save_cache(yf_symbol, offline.quote, cf).file
                            ELSE cf,
              historyFile |-> hf, ticked |-> FALSE]
        ELSE LET price == IF live.price.isNone THEN 0 ELSE live.price.val
                 quote == Quote(yf_symbol, price, 0, 0, Now(t), "yfinance")
                 saved == _save_cache(yf_symbol, quote, cf)
             IN  IF saved.raised
                 THEN [ret |-> fallback(symbol, "TypeError", cf, hf),
                       cacheFile |-> cf, historyFile |-> hf, ticked |-> TRUE]
                 ELSE [ret |-> [kind |-> "quote", quote |-> quote],
                       cacheFile |-> saved.file,
                       historyFile |-> _save_history(quote, hf),
                       ticked |-> TRUE]

\* the whole call: what it returns or raises, the files after it, and whether
\* datetime.now() was read
get_quote(symbol, feed, t, cf, hf) ==
    LET yf_symbol == normalize_symbol(symbol)
        live      == live_price(feed)
    IN  IF live.raised
        THEN [ret |-> fallback(symbol, live.cause, cf, hf),
              cacheFile |-> cf, historyFile |-> hf, ticked |-> FALSE]
        ELSE LET price == IF live.price.isNone THEN 0 ELSE live.price.val
                 quote == Quote(yf_symbol, price, 0, 0, Now(t), "yfinance")
                 saved == _save_cache(yf_symbol, quote, cf)
             IN  IF saved.raised
                 THEN [ret |-> fallback(symbol, "TypeError", cf, hf),
                       cacheFile |-> cf, historyFile |-> hf, ticked |-> TRUE]
                 ELSE [ret |-> [kind |-> "quote", quote |-> quote],
                       cacheFile |-> saved.file,
                       historyFile |-> _save_history(quote, hf),
                       ticked |-> TRUE]

---------------------------------------------------------------------------
(* get_daily *)

\* get_daily without its except clause: the failure of the upstream reaches
\* the caller
get_daily_propagating(symbol, range, bars) ==
    IF bars.kind = "raise"
    THEN [symbol |-> symbol, exc |-> "Exception"]
    ELSE [symbol |-> symbol,
          points |-> [i \in 1..Len(bars.rows) |->
                        [time |-> bars.rows[i].time, close |-> bars.rows[i].close]]]

\* bars: what yf.Ticker(symbol).history(period=range) does: raises, or a
\* sequence of (time, close) rows
get_daily(symbol, range, bars) ==
    IF bars.kind = "raise"
    THEN [symbol |-> symbol, points |-> <<>>]
    ELSE [symbol |-> symbol,
          points |-> [i \in 1..Len(bars.rows) |->
                        [time |-> bars.rows[i].time, close |-> bars.rows[i].close]]]

---------------------------------------------------------------------------
(* Portfolio store and valuator *)

\* a CSV cell holding the text of a number, or text float() rejects
NumCell(v) == [num |-> TRUE, val |-> v]

JunkCell == [num |-> FALSE, val |-> 0]

safe_float(cell) == IF cell.num THEN cell.val ELSE 0

_load_portfolio(pf) ==
    IF pf.exists
    THEN [i \in 1..Len(pf.rows) |->
            [symbol    |-> normalize_symbol(pf.rows[i].symbol),
             quantity  |-> safe_float(pf.rows[i].quantity),
             buy_price |-> safe_float(pf.rows[i].buy_price)]]
    ELSE <<>>

_save_portfolio(holdings) ==
    PortfolioFile(TRUE,
        [i \in 1..Len(holdings) |->
            [symbol    |-> holdings[i].symbol,
             quantity  |-> NumCell(holdings[i].quantity),
             buy_price |-> NumCell(holdings[i].buy_price)]])

\* add_holding that merges the new lot into a stored lot of the symbol
add_holding_merging(symbol, quantity, buy_price, pf) ==
    LET holdings == _load_portfolio(pf)
        norm     == normalize_symbol(symbol)
    IN  IF \E i \in 1..Len(holdings) : holdings[i].symbol = norm
        THEN _save_portfolio([i \in 1..Len(holdings) |->
                 IF holdings[i].symbol = norm
                 THEN [holdings[i] EXCEPT !.quantity = @ + quantity]
                 ELSE holdings[i]])
        ELSE _save_portfolio(Append(holdings,
                 [symbol |-> norm, quantity |-> quantity, buy_price |-> buy_price]))

add_holding(symbol, quantity, buy_price, pf) ==
    LET holdings == _load_portfolio(pf)
    IN  _save_portfolio(Append(holdings,
            [symbol |-> normalize_symbol(symbol), quantity |-> quantity,
             buy_price |-> buy_price]))

KeepHolding(h, norm) == h.symbol # norm

\* remove_holding that deletes the first lot of the symbol only
remove_holding_first(symbol, pf) ==
    LET holdings == _load_portfolio(pf)
        norm     == normalize_symbol(symbol)
        hits     == { i \in 1..Len(holdings) : holdings[i].symbol = norm }
    IN  IF hits = {} THEN _save_portfolio(holdings)
        ELSE LET k == CHOOSE i \in hits : \A j \in hits : i <= j
             IN  _save_portfolio(SubSeq(holdings, 1, k - 1) \o
                                 SubSeq(holdings, k + 1, Len(holdings)))

remove_holding(symbol, pf) ==
    LET holdings == _load_portfolio(pf)
        norm     == normalize_symbol(symbol)
    IN  _save_portfolio(SelectSeq(holdings, LAMBDA h : KeepHolding(h, norm)))

endswith(s, suffix) ==
    /\ Len(s) >= Len(suffix)
    /\ SubSeq(s, Len(s) - Len(suffix) + 1, Len(s)) = suffix

contains(s, sub) ==
    \E i \in 1..(Len(s) - Len(sub) + 1) : SubSeq(s, i, i + Len(sub) - 1) = sub

\* returns "$", the euro sign (written "EUR") or "lei"
currency_symbol(symbol) ==
    LET sym == upper(symbol)
    IN  IF \/ endswith(sym, <<"-","U","S","D">>)
           \/ endswith(sym, <<"=","X">>)
           \/ contains(sym, <<"U","S","D">>)
        THEN "$"
        ELSE IF contains(sym, <<"E","U","R">>) THEN "EUR"
        ELSE IF contains(sym, <<"R","O","N">>) THEN "lei"
        ELSE ""

\* pl_percent computed without the test of total_spent
Percent_unguarded(pl, total_spent) == [num |-> pl * 100, den |-> total_spent]

\* a float quotient pl / total_spent * 100, kept exact as a fraction
Percent(pl, total_spent) ==
    IF total_spent # 0 THEN [num |-> pl * 100, den |-> total_spent]
    ELSE [num |-> 0, den |-> 1]

\* one pass of the loop body of enrich_portfolio, lines 54-89
enrich_one(h, q) ==
    LET total_spent == h.quantity * h.buy_price
    IN  IF q.kind = "quote"
        THEN LET current_price == q.quote.price
                 value == h.quantity * current_price
                 pl    == value - total_spent
             IN  [symbol |-> h.symbol, quantity |-> h.quantity,
                  buy_price |-> h.buy_price, total_spent |-> total_spent,
                  current_price |-> Some(current_price), value |-> Some(value),
                  pl |-> pl, pl_percent |-> Percent(pl, total_spent),
                  currency |-> currency_symbol(h.symbol),
                  source |-> q.quote.source]
        ELSE [symbol |-> h.symbol, quantity |-> h.quantity,
              buy_price |-> h.buy_price, total_spent |-> total_spent,
              current_price |-> None, value |-> None,
              pl |-> 0, pl_percent |-> Percent(0, 0),
              currency |-> currency_symbol(h.symbol),
              source |-> "local-cache"]

\* enrich_portfolio that stops at the first holding whose get_quote raises
RECURSIVE enrich_loop_aborting(_, _, _, _, _, _, _)
enrich_loop_aborting(holdings, feeds, i, t, cf, hf, enriched) ==
    IF i > Len(holdings)
    THEN [ret |-> enriched, quotes |-> <<>>, cacheFile |-> cf, historyFile |-> hf, clock |-> t]
    ELSE LET r == CHOOSE x \in { get_quote(holdings[i].symbol, feeds[i], t, cf, hf) } : TRUE
         IN  IF r.ret.kind = "raise"
             THEN [ret |-> enriched, quotes |-> <<r.ret>>,
                   cacheFile |-> cf, historyFile |-> hf, clock |-> t]
             ELSE [enrich_loop_aborting(holdings, feeds, i + 1,
                                        IF r.ticked THEN t + 1 ELSE t,
                                        r.cacheFile, r.historyFile,
                                        Append(enriched, enrich_one(holdings[i], r.ret)))
                     EXCEPT !.quotes = <<r.ret>> \o @]

\* the loop of enrich_portfolio from holding i on: feeds[i] is what the
\* upstream does during the i-th get_quote; quotes holds what each get_quote
\* returned or raised
RECURSIVE enrich_loop(_, _, _, _, _, _, _)
enrich_loop(holdings, feeds, i, t, cf, hf, enriched) ==
    IF i > Len(holdings)
    THEN [ret |-> enriched, quotes |-> <<>>, cacheFile |-> cf, historyFile |-> hf, clock |-> t]
    ELSE LET r == CHOOSE x \in { get_quote(holdings[i].symbol, feeds[i], t, cf, hf) } : TRUE
         IN  [enrich_loop(holdings, feeds, i + 1,
                          IF r.ticked THEN t + 1 ELSE t,
                          r.cacheFile, r.historyFile,
                          Append(enriched, enrich_one(holdings[i], r.ret)))
                EXCEPT !.quotes = <<r.ret>> \o @]

enrich_portfolio(feeds, t, cf, hf, pf) ==
    enrich_loop(_load_portfolio(pf), feeds, 1, t, cf, hf, <<>>)

---------------------------------------------------------------------------
(* Inputs: what the caller passes and what the upstream feed does *)

\* "btc", "BTC-USD" and " Eth "
RawSymbols == { <<"b","t","c">>, <<"B","T","C","-","U","S","D">>, <<" ","E","t","h"," ">> }

CanonSymbols == { normalize_symbol(s) : s \in RawSymbols }

\* ticker.fast_info.get("lastPrice"): raises, gives None, or gives a price
\* (0 is the feed's exactly-zero price)
FastInfos ==
    [kind : {"raise", "missing"}, price : {0}] \cup [kind : {"price"}, price : 0..MaxPrice]

\* ticker.history(period="1d"): raises, gives an empty frame, or gives a bar
DailyBars ==
    [kind : {"raise", "empty"}, close : {0}] \cup [kind : {"bar"}, close : 1..MaxPrice]

\* the bar is requested only after fast_info gave no price or exactly zero
NotCalled == [kind |-> "not_called", close |-> 0]

Unusable(fast) == fast.kind = "missing" \/ (fast.kind = "price" /\ fast.price = 0)

Feeds ==
    { [fast |-> f, hist |-> h] : f \in { x \in FastInfos : Unusable(x) }, h \in DailyBars } \cup
    { [fast |-> f, hist |-> NotCalled] : f \in { x \in FastInfos : ~Unusable(x) } }

\* what the upstream did in a live attempt, as the caller sees it: it raised,
\* it gave no usable price (no price or exactly zero, and no bar), or it gave
\* a price
LiveOutcome(feed) ==
    LET unusable == Unusable(feed.fast)
    IN  IF feed.fast.kind = "raise" \/ (unusable /\ feed.hist.kind = "raise")
        THEN [outcome |-> "raise", price |-> 0]
        ELSE IF unusable /\ feed.hist.kind = "empty"
             THEN [outcome |-> "no_price", price |-> 0]
             ELSE IF unusable
                  THEN [outcome |-> "price", price |-> feed.hist.close]
                  ELSE [outcome |-> "price", price |-> feed.fast.price]

\* the upstream behaviours drawn for each holding of a valuation: fast_info
\* raises, gives a price, or gives none and there is no bar
EnrichFeeds ==
    { f \in Feeds : \/ f.fast.kind = "raise"
                    \/ f.fast.kind = "price" /\ f.fast.price > 0
                    \/ f.fast.kind = "missing" /\ f.hist.kind = "empty" }

Ranges == {"1mo", "max"}

\* yf.Ticker(symbol).history(period=range): raises, or gives daily rows
SeriesFeeds ==
    { [kind |-> "raise", rows |-> <<>>] } \cup
    { [kind |-> "rows", rows |-> rows] :
        rows \in UNION { [1..n -> [time : {Now(0)}, close : 1..MaxPrice]] : n \in 0..MaxPoints } }

---------------------------------------------------------------------------
(* Initial file contents *)

\* a well-formed cache entry, and one with fields missing
GoodEntry(s) ==
    [symbol |-> s, price |-> 1, change |-> 0, change_percent |-> 0,
     last_refreshed |-> isoformat(Now(1)), source |-> "yfinance"]

BadEntry(s) == [symbol |-> s]

InitCacheMaps ==
    UNION { { [s \in S |-> IF s \in G THEN GoodEntry(s) ELSE BadEntry(s)] : G \in SUBSET S } :
            S \in SUBSET CanonSymbols }

InitCacheFiles ==
    { CacheFile(k, EmptyMap) : k \in {"absent", "garbage", "nonmap"} } \cup
    { CacheFile("map", m) : m \in InitCacheMaps }

\* the i-th row of an initial history file: a row _save_history wrote for
\* symbol s, with price i
InitRow(s, i) ==
    [symbol |-> s, price |-> i, change |-> 0, change_percent |-> 0,
     timestamp |-> strftime(Now(0)), source |-> "yfinance"]

InitHistoryFiles ==
    { HistoryFile(FALSE, <<>>) } \cup
    { HistoryFile(TRUE, [i \in 1..n |-> InitRow(syms[i], i)]) :
        n \in 0..MaxInitRows, syms \in [1..MaxInitRows -> CanonSymbols] }

---------------------------------------------------------------------------
(* The market data client over any cache and history files *)

Init ==
    /\ cacheFile \in InitCacheFiles
    /\ historyFile \in InitHistoryFiles
    /\ portfolioFile = PortfolioFile(FALSE, <<>>)
    /\ clock = 0
    /\ last = [op |-> "init"]

GetQuote ==
    \E symbol \in RawSymbols, feed \in Feeds :
        \E r \in { get_quote(symbol, feed, clock, cacheFile, historyFile) } :
            /\ r.ticked => clock < MaxClock
            /\ cacheFile' = r.cacheFile
            /\ historyFile' = r.historyFile
            /\ clock' = IF r.ticked THEN clock + 1 ELSE clock
            /\ last' = [op |-> "get_quote", symbol |-> symbol, feed |-> feed,
                        live |-> LiveOutcome(feed), ret |-> r.ret]
            /\ UNCHANGED portfolioFile

Next == GetQuote

Spec == Init /\ [][Next]_vars

---------------------------------------------------------------------------
(* The whole application, from a fresh install *)

\* ensure_data_dirs: cache.json holds {}, portfolio.csv holds its header;
\* api.py's history.csv is not created
InitApp ==
    /\ cacheFile = CacheFile("map", EmptyMap)
    /\ historyFile = HistoryFile(FALSE, <<>>)
    /\ portfolioFile = PortfolioFile(TRUE, <<>>)
    /\ clock = 0
    /\ last = [op |-> "init"]

GetDaily ==
    \E symbol \in RawSymbols, range \in Ranges, bars \in SeriesFeeds :
        /\ last' = [op |-> "get_daily", symbol |-> symbol, range |-> range,
                    raised |-> bars.kind = "raise",
                    ret |-> get_daily(symbol, range, bars)]
        /\ UNCHANGED <<cacheFile, historyFile, portfolioFile, clock>>

AddHolding ==
    \E symbol \in RawSymbols, quantity \in 1..MaxQuantity, buy_price \in 0..MaxBuyPrice :
        /\ Len(portfolioFile.rows) < MaxHoldings
        /\ portfolioFile' = add_holding(symbol, quantity, buy_price, portfolioFile)
        /\ last' = [op |-> "add_holding", symbol |-> symbol,
                    quantity |-> quantity, buy_price |-> buy_price]
        /\ UNCHANGED <<cacheFile, historyFile, clock>>

RemoveHolding ==
    \E symbol \in RawSymbols :
        /\ portfolioFile' = remove_holding(symbol, portfolioFile)
        /\ last' = [op |-> "remove_holding", symbol |-> symbol,
                    removed |-> Len(portfolioFile.rows) - Len(portfolioFile'.rows)]
        /\ UNCHANGED <<cacheFile, historyFile, clock>>

EnrichPortfolio ==
    \E feeds \in [1..Len(portfolioFile.rows) -> EnrichFeeds] :
        \E r \in { enrich_portfolio(feeds, clock, cacheFile, historyFile, portfolioFile) } :
            /\ r.clock <= MaxClock
            /\ cacheFile' = r.cacheFile
            /\ historyFile' = r.historyFile
            /\ clock' = r.clock
            /\ last' = [op |-> "enrich_portfolio",
                        feeds |-> feeds,
                        live |-> [i \in 1..Len(feeds) |-> LiveOutcome(feeds[i])],
                        quotes |-> r.quotes,
                        ret |-> r.ret]
            /\ UNCHANGED portfolioFile

NextApp ==
    \/ GetQuote
    \/ GetDaily
    \/ AddHolding
    \/ RemoveHolding
    \/ EnrichPortfolio

SpecApp == InitApp /\ [][NextApp]_vars

---------------------------------------------------------------------------
(* Vocabulary of the properties *)

\* the fields of a cache record
RecordKeys == {"symbol", "price", "change", "change_percent", "last_refreshed", "source"}

\* the cache file is a mapping that holds a record with every field under s
HasRecord(cf, s) ==
    /\ cf.kind = "map"
    /\ s \in DOMAIN cf.map
    /\ RecordKeys \subseteq DOMAIN cf.map[s]

\* the number of keys of the cache mapping (none when the file is no mapping)
RecordCount(cf) == IF cf.kind = "map" THEN Cardinality(DOMAIN cf.map) ELSE 0

\* the history log holds a row for s
HasRow(hf, s) == \E i \in 1..Len(hf.rows) : hf.rows[i].symbol = s

\* the greatest index of a row for s
LatestIndex(hf, s) ==
    CHOOSE i \in 1..Len(hf.rows) :
        /\ hf.rows[i].symbol = s
        /\ \A j \in 1..Len(hf.rows) : hf.rows[j].symbol = s => j <= i

IsPrefix(a, b) == Len(a) <= Len(b) /\ SubSeq(b, 1, Len(a)) = a

\* the upstream feed failed: it raised, or it gave no usable price
LiveFailed(live) == live.outcome \in {"raise", "no_price"}

\* the call returned the quote built by the live attempt
ReturnedLive(l) == l.op = "get_quote" /\ l.ret.kind = "quote" /\ l.ret.quote.source = "yfinance"

\* the call returned a quote recovered from the cache or the history log
ReturnedOffline(l) ==
    l.op = "get_quote" /\ l.ret.kind = "quote" /\ l.ret.quote.source \in {"cache", "offline-history"}

\* the call raised
Raised(l) == l.op = "get_quote" /\ l.ret.kind = "raise"

\* quote q carries the fields of cache record e, tagged "cache"
IsCachedQuote(q, e) ==
    /\ q.symbol = e.symbol
    /\ q.price = e.price
    /\ q.change = e.change
    /\ q.change_percent = e.change_percent
    /\ isoformat(q.last_refreshed) = e.last_refreshed
    /\ q.source = "cache"

\* quote q carries the fields of history row r, tagged "offline-history"
IsHistoryQuote(q, r) ==
    /\ q.symbol = r.symbol
    /\ q.price = r.price
    /\ q.change = r.change
    /\ q.change_percent = r.change_percent
    /\ strftime(q.last_refreshed) = r.timestamp
    /\ q.source = "offline-history"

---------------------------------------------------------------------------
(* C1 - C4: the fallback chain *)

\* C1: when the live attempt yields no usable price (fast price missing or
\* exactly zero, and no daily bar), get_quote returns no live quote, and no
\* live quote with price 0 is ever written to the cache or the history log.
C1_NoLiveQuoteWithoutPrice ==
    /\ (last.op = "get_quote" /\ last.live.outcome = "no_price") => ~ReturnedLive(last)
    /\ \A s \in DOMAIN cacheFile.map :
          HasRecord(cacheFile, s) =>
              ~(cacheFile.map[s].source = "yfinance" /\ cacheFile.map[s].price = 0)
    /\ \A i \in 1..Len(historyFile.rows) :
          ~(historyFile.rows[i].source = "yfinance" /\ historyFile.rows[i].price = 0)

\* C2: if the live fetch fails and the cache holds a record under
\* normalize(s), get_quote returns that record's fields tagged "cache",
\* whatever the history log holds.
C2_CachedQuoteOnLiveFailure ==
    [][ (/\ last'.op = "get_quote"
         /\ LiveFailed(last'.live)
         /\ HasRecord(cacheFile, normalize_symbol(last'.symbol)))
        => (/\ last'.ret.kind = "quote"
            /\ IsCachedQuote(last'.ret.quote, cacheFile.map[normalize_symbol(last'.symbol)])) ]_vars

\* C2, for the failures the code does treat as failures: the same with the
\* upstream raising.
C2_CachedQuoteOnRaise ==
    [][ (/\ last'.op = "get_quote"
         /\ last'.live.outcome = "raise"
         /\ HasRecord(cacheFile, normalize_symbol(last'.symbol)))
        => (/\ last'.ret.kind = "quote"
            /\ IsCachedQuote(last'.ret.quote, cacheFile.map[normalize_symbol(last'.symbol)])) ]_vars

\* C3: if the live fetch fails and the cache has no record for normalize(s),
\* get_quote returns the history row of greatest index among the rows for
\* normalize(s), tagged "offline-history".
C3_LatestHistoryRowOnLiveFailure ==
    [][ (/\ last'.op = "get_quote"
         /\ LiveFailed(last'.live)
         /\ ~HasRecord(cacheFile, normalize_symbol(last'.symbol))
         /\ HasRow(historyFile, normalize_symbol(last'.symbol)))
        => (/\ last'.ret.kind = "quote"
            /\ IsHistoryQuote(last'.ret.quote,
                   historyFile.rows[LatestIndex(historyFile, normalize_symbol(last'.symbol))])) ]_vars

\* C3, for the failures the code does treat as failures: the same with the
\* upstream raising.
C3_LatestHistoryRowOnRaise ==
    [][ (/\ last'.op = "get_quote"
         /\ last'.live.outcome = "raise"
         /\ ~HasRecord(cacheFile, normalize_symbol(last'.symbol))
         /\ HasRow(historyFile, normalize_symbol(last'.symbol)))
        => (/\ last'.ret.kind = "quote"
            /\ IsHistoryQuote(last'.ret.quote,
                   historyFile.rows[LatestIndex(historyFile, normalize_symbol(last'.symbol))])) ]_vars

\* C4: get_quote raises, carrying the symbol, if and only if the live attempt
\* failed and neither the cache nor the history log holds the symbol; in every
\* other state it returns a quote.
C4_RaisesIffAllExhausted ==
    [][ last'.op = "get_quote" =>
          /\ Raised(last') <=>
                (/\ LiveFailed(last'.live)
                 /\ ~HasRecord(cacheFile, normalize_symbol(last'.symbol))
                 /\ ~HasRow(historyFile, normalize_symbol(last'.symbol)))
          /\ Raised(last') => last'.ret.symbol = last'.symbol ]_vars

---------------------------------------------------------------------------
(* C5 - C10: what get_quote writes *)

\* C5: after a get_quote that returns a live quote, however often the symbol
\* was fetched before, the cache holds a record for normalize(s), it holds at
\* most one record more than before, and the history log is the log before
\* the call followed by one row for normalize(s).
C5_LiveSuccessWritesOnce ==
    [][ ReturnedLive(last') =>
          /\ HasRecord(cacheFile', normalize_symbol(last'.symbol))
          /\ Cardinality({ k \in DOMAIN cacheFile'.map : k = normalize_symbol(last'.symbol) }) = 1
          /\ RecordCount(cacheFile') <= RecordCount(cacheFile) + 1
          /\ Len(historyFile'.rows) = Len(historyFile.rows) + 1
          /\ historyFile'.rows[Len(historyFile'.rows)].symbol = normalize_symbol(last'.symbol) ]_vars

\* a symbol fetched live twice in a row: two rows for it end the log, one
\* record for it is in the cache
C5_Witness ==
    /\ ReturnedLive(last)
    /\ Len(historyFile.rows) >= 2
    /\ historyFile.rows[Len(historyFile.rows)].symbol = normalize_symbol(last.symbol)
    /\ historyFile.rows[Len(historyFile.rows) - 1].symbol = normalize_symbol(last.symbol)
    /\ HasRecord(cacheFile, normalize_symbol(last.symbol))
    /\ RecordCount(cacheFile) = 1
    /\ clock = 2
    /\ Len(historyFile.rows) >= 2
    /\ historyFile.rows[Len(historyFile.rows)].symbol = normalize_symbol(last.symbol)
    /\ historyFile.rows[Len(historyFile.rows) - 1].symbol = normalize_symbol(last.symbol)
    /\ HasRecord(cacheFile, normalize_symbol(last.symbol))

\* the call returned a quote that comes neither from the cache nor from the
\* history log: the one the live attempt built
BuiltLive(l) ==
    l.op = "get_quote" /\ l.ret.kind = "quote" /\ l.ret.quote.source \notin {"cache", "offline-history"}

\* what C6 says of the quote the live attempt built, for source tag tag:
\* change and change_percent are 0, and the cache record and the history row
\* written for it carry the tag
LiveQuoteWritten(tag) ==
    /\ last.ret.quote.source = tag
    /\ last.ret.quote.change = 0
    /\ last.ret.quote.change_percent = 0
    /\ HasRecord(cacheFile, last.ret.quote.symbol)
    /\ cacheFile.map[last.ret.quote.symbol].source = tag
    /\ historyFile.rows # <<>>
    /\ historyFile.rows[Len(historyFile.rows)].symbol = last.ret.quote.symbol
    /\ historyFile.rows[Len(historyFile.rows)].source = tag

C8_FallbackIsReadOnly ==
    [][ /\ (ReturnedOffline(last') \/ Raised(last')) =>
              (cacheFile' = cacheFile /\ historyFile' = historyFile)
        /\ (cacheFile' # cacheFile \/ historyFile' # historyFile) => ReturnedLive(last') ]_vars

\* a quote recovered from the history log while the cache holds no record for
\* its symbol, before and after
C8_Witness ==
    /\ last.op = "get_quote"
    /\ last.ret.kind = "quote"
    /\ last.ret.quote.source = "offline-history"
    /\ ~HasRecord(cacheFile, last.ret.quote.symbol)
    /\ Len(historyFile.rows) >= 2

\* C9: a put for s makes get(s) return the fields of the quote put, replaces
\* the whole record for s, and leaves the record of every other symbol as it
\* was; the cache holds one record per symbol.
C9_LastWriteWins ==
    [][ ReturnedLive(last') =>
          LET s == normalize_symbol(last'.symbol)
              q == last'.ret.quote
              got == _load_cache(s, cacheFile')
          IN  /\ ~got.isNone
              /\ IsCachedQuote(got.val, cacheFile'.map[s])
              /\ got.val.price = q.price
              /\ got.val.change = q.change
              /\ got.val.change_percent = q.change_percent
              /\ got.val.last_refreshed = q.last_refreshed
              /\ got.val.symbol = q.symbol
              /\ DOMAIN cacheFile'.map[s] = RecordKeys
              /\ cacheFile'.map[s].source = q.source
              /\ DOMAIN cacheFile'.map = DOMAIN cacheFile.map \cup {s}
              /\ \A t \in DOMAIN cacheFile.map : t # s => cacheFile'.map[t] = cacheFile.map[t] ]_vars

\* two puts for one symbol with different prices, beside the record of another
\* symbol: the cache holds the second price
C9_Witness ==
    /\ ReturnedLive(last)
    /\ clock = 2
    /\ Len(historyFile.rows) >= 2
    /\ historyFile.rows[Len(historyFile.rows)].symbol = last.ret.quote.symbol
    /\ historyFile.rows[Len(historyFile.rows) - 1].symbol = last.ret.quote.symbol
    /\ historyFile.rows[Len(historyFile.rows) - 1].price # last.ret.quote.price
    /\ cacheFile.map[last.ret.quote.symbol].price = last.ret.quote.price
    /\ \E t \in DOMAIN cacheFile.map : t # last.ret.quote.symbol

\* the cache file holds nothing _load_cache can use for s: there is no file,
\* it does not parse, it is no mapping, or the record for s lacks fields
Corrupt(cf, s) ==
    \/ cf.kind \in {"absent", "garbage", "nonmap"}
    \/ cf.kind = "map" /\ s \in DOMAIN cf.map /\ ~(RecordKeys \subseteq DOMAIN cf.map[s])

\* C10: with a cache file that is absent, unparseable, no mapping, or whose
\* record lacks fields, a get_quote whose live fetch gives a price returns
\* the live quote and writes it to the cache and the history log, and any
\* other get_quote returns or raises what it would with an empty cache.
C10_CorruptCacheIsEmptyCache ==
    [][ (last'.op = "get_quote" /\ Corrupt(cacheFile, normalize_symbol(last'.symbol))) =>
          /\ last'.live.outcome = "price" =>
                /\ ReturnedLive(last')
                /\ last'.ret.quote.price = last'.live.price
                /\ HasRecord(cacheFile', normalize_symbol(last'.symbol))
                /\ Len(historyFile'.rows) = Len(historyFile.rows) + 1
          /\ last'.live.outcome # "price" =>
                last'.ret = get_quote(last'.symbol, last'.feed, clock,
                                      CacheFile("map", EmptyMap), historyFile).ret ]_vars

\* C10, for the contents the code does recover from (no file, unparseable, a
\* record lacking fields): the same without the files that hold no mapping.
C10_UnreadableCacheIsEmptyCache ==
    [][ (/\ last'.op = "get_quote"
         /\ Corrupt(cacheFile, normalize_symbol(last'.symbol))
         /\ cacheFile.kind # "nonmap") =>
          /\ last'.live.outcome = "price" =>
                /\ ReturnedLive(last')
                /\ last'.ret.quote.price = last'.live.price
                /\ HasRecord(cacheFile', normalize_symbol(last'.symbol))
                /\ Len(historyFile'.rows) = Len(historyFile.rows) + 1
          /\ last'.live.outcome # "price" =>
                last'.ret = get_quote(last'.symbol, last'.feed, clock,
                                      CacheFile("map", EmptyMap), historyFile).ret ]_vars

---------------------------------------------------------------------------
(* C7: the history log *)

\* C7: across get_quote, get_daily, enrich_portfolio, add_holding and
\* remove_holding, the rows of the history log before a step are a prefix of
\* the rows after it, and the file, once there, stays.
C7_HistoryAppendOnly ==
    [][ /\ IsPrefix(historyFile.rows, historyFile'.rows)
        /\ historyFile.exists => historyFile'.exists ]_vars

\* a valuation that ends with two rows in the log
C7_Witness ==
    /\ last.op = "enrich_portfolio"
    /\ Len(last.ret) = 2
    /\ Len(historyFile.rows) = 2
    /\ historyFile.rows[1] # historyFile.rows[2]

---------------------------------------------------------------------------
(* The portfolio tab: the commands of PortfolioUI *)

\* symbol_entry.get(): a blank, "btc" or " Eth "
SymbolTexts == { <<" ">>, <<"b","t","c">>, <<" ","E","t","h"," ">> }

\* qty_entry.get(): the text of a number (an empty field reads as 0) or text
\* float() rejects
QuantityTexts == { NumCell(v) : v \in 0..MaxQuantity } \cup { JunkCell }

\* price_entry.get(): the text of a number, negative ones included
BuyPriceTexts == { NumCell(v) : v \in -1..MaxBuyPrice }

\* the upstream behaviours drawn for each row of a refresh: fast_info raises
\* or gives the price MaxPrice
RefreshFeeds ==
    { f \in EnrichFeeds : \/ f.fast.kind = "raise"
                          \/ f.fast.kind = "price" /\ f.fast.price = MaxPrice }

\* the symbols of the rows the tree shows, one of which may be selected
TreeSymbols(pf) == { _load_portfolio(pf)[i].symbol : i \in 1..Len(pf.rows) }

\* PortfolioUI._refresh_data over portfolio file pf: the files and the clock
\* after enrich_portfolio, and the rows shown
Refreshed(feeds, pf) ==
    /\ \E r \in { enrich_portfolio(feeds, clock, cacheFile, historyFile, pf) } :
          /\ r.clock <= MaxClock
          /\ cacheFile' = r.cacheFile
          /\ historyFile' = r.historyFile
          /\ clock' = r.clock

\* PortfolioUI._add: float() raises on a field that is no number; the holding
\* is added when the symbol is not empty and the quantity is positive, and
\* the tab is refreshed
PortfolioUI_add ==
    \E sym_text \in SymbolTexts, qty \in QuantityTexts, bp \in BuyPriceTexts :
        LET sym == strip(sym_text)
        IN  IF ~qty.num \/ ~bp.num
            THEN /\ last' = [op |-> "_add", symbol |-> sym_text, quantity |-> qty,
                             buy_price |-> bp, outcome |-> "raise"]
                 /\ UNCHANGED <<cacheFile, historyFile, portfolioFile, clock>>
            ELSE IF sym # <<>> /\ qty.val > 0
            THEN /\ Len(portfolioFile.rows) < MaxHoldings
                 /\ portfolioFile' = add_holding(sym, qty.val, bp.val, portfolioFile)
                 /\ \E feeds \in [1..Len(portfolioFile.rows) + 1 -> RefreshFeeds] :
                        Refreshed(feeds, portfolioFile')
                 /\ last' = [op |-> "_add", symbol |-> sym_text, quantity |-> qty,
                             buy_price |-> bp, outcome |-> "added"]
            ELSE /\ last' = [op |-> "_add", symbol |-> sym_text, quantity |-> qty,
                             buy_price |-> bp, outcome |-> "ignored"]
                 /\ UNCHANGED <<cacheFile, historyFile, portfolioFile, clock>>

\* PortfolioUI._remove: the symbol of the selected row, else the entry text;
\* nothing happens without a symbol
PortfolioUI_remove ==
    \E sym \in TreeSymbols(portfolioFile) \cup { strip(t) : t \in SymbolTexts } :
        IF sym = <<>>
        THEN /\ last' = [op |-> "_remove", symbol |-> sym, outcome |-> "ignored"]
             /\ UNCHANGED <<cacheFile, historyFile, portfolioFile, clock>>
        ELSE /\ portfolioFile' = remove_holding(sym, portfolioFile)
             /\ \E feeds \in [1..Len(portfolioFile'.rows) -> RefreshFeeds] :
                    Refreshed(feeds, portfolioFile')
             /\ last' = [op |-> "_remove", symbol |-> sym, outcome |-> "removed"]

\* PortfolioUI._refresh_data, the Refresh button
PortfolioUI_refresh_data ==
    /\ \E feeds \in [1..Len(portfolioFile.rows) -> RefreshFeeds] :
          Refreshed(feeds, portfolioFile)
    /\ last' = [op |-> "_refresh_data"]
    /\ UNCHANGED portfolioFile

NextUI ==
    \/ PortfolioUI_add
    \/ PortfolioUI_remove
    \/ PortfolioUI_refresh_data

SpecUI == InitApp /\ [][NextUI]_vars

---------------------------------------------------------------------------
(* C11: validation at entry *)

\* holding h satisfies quantity > 0, buy_price >= 0 and a symbol that is not
\* empty
ValidHolding(h) == h.quantity > 0 /\ h.buy_price >= 0 /\ h.symbol # <<>>

\* the add command l carries a quantity that is not positive, a negative buy
\* price or an empty symbol
InvalidAdd(l) ==
    /\ l.op = "_add"
    /\ \/ strip(l.symbol) = <<>>
       \/ l.quantity.num /\ l.quantity.val <= 0
       \/ l.buy_price.num /\ l.buy_price.val < 0

\* C11: every holding in the portfolio file after any sequence of add and
\* remove commands has quantity > 0, buy_price >= 0 and a symbol that is not
\* empty, and an add command with a quantity that is not positive, a negative
\* buy price or an empty symbol leaves the portfolio file as it was.
C11_EntryValidated ==
    [][ /\ \A i \in 1..Len(portfolioFile'.rows) :
              ValidHolding(_load_portfolio(portfolioFile')[i])
        /\ InvalidAdd(last') => portfolioFile' = portfolioFile ]_vars

\* C11, for what the add command does check: the quantity is positive and the
\* symbol is not empty in every stored holding, and an add command with a
\* quantity that is not positive, an empty symbol or a field that is no number
\* leaves the portfolio file as it was.
C11_QuantityAndSymbolChecked ==
    [][ /\ \A i \in 1..Len(portfolioFile'.rows) :
              LET h == _load_portfolio(portfolioFile')[i]
              IN  h.quantity > 0 /\ h.symbol # <<>>
        /\ (/\ last'.op = "_add"
            /\ \/ strip(last'.symbol) = <<>>
               \/ ~last'.quantity.num
               \/ ~last'.buy_price.num
               \/ last'.quantity.val <= 0) => portfolioFile' = portfolioFile ]_vars

---------------------------------------------------------------------------
(* C12, C13: the portfolio store *)

\* the holdings the portfolio file holds, as the store reads them
Holdings(pf) == _load_portfolio(pf)

\* the rows of holdings for other symbols than norm, in their order
RECURSIVE Others(_, _)
Others(holdings, norm) ==
    IF holdings = <<>> THEN <<>>
    ELSE IF Head(holdings).symbol = norm THEN Others(Tail(holdings), norm)
    ELSE <<Head(holdings)>> \o Others(Tail(holdings), norm)

\* C12: remove_holding(s) deletes every holding whose symbol is normalize(s)
\* and keeps the other holdings, values and order unchanged; add_holding(s,
\* q, p) followed by remove_holding(s) leaves no row for normalize(s), the
\* lots stored before the add included, whatever other rows there are.
C12_RemoveDeletesEveryLot ==
    [][ /\ last'.op = "remove_holding" =>
              \A norm \in { normalize_symbol(last'.symbol) } :
              \A after \in { Holdings(portfolioFile') } :
                  /\ \A i \in 1..Len(after) : after[i].symbol # norm
                  /\ after = Others(Holdings(portfolioFile), norm)
        /\ last'.op \in {"add_holding", "remove_holding"} =>
              \A s \in RawSymbols, q \in 1..MaxQuantity, p \in 0..MaxBuyPrice :
              \A norm \in { normalize_symbol(s) } :
              \A added \in { add_holding(s, q, p, portfolioFile') } :
              \A removed \in { remove_holding(s, added) } :
              \A after \in { Holdings(removed) } :
                  /\ \A i \in 1..Len(after) : after[i].symbol # norm
                  /\ after = Others(Holdings(portfolioFile'), norm) ]_vars

\* a removal that deleted a lot and kept the lot of another symbol
C12_Witness ==
    /\ last.op = "remove_holding"
    /\ last.removed >= 1
    /\ Len(portfolioFile.rows) >= 1
    /\ Holdings(portfolioFile)[1].symbol # normalize_symbol(last.symbol)

\* C13: add_holding(s, q, p) appends the one holding (normalize(s), q, p) at
\* the end of the store and merges nothing: the store grows by one row and
\* the holdings stored before are a prefix of it, unchanged.
C13_AddAppendsOneLot ==
    [][ last'.op = "add_holding" =>
          \A before \in { Holdings(portfolioFile) } :
          \A after \in { Holdings(portfolioFile') } :
              /\ Len(after) = Len(before) + 1
              /\ SubSeq(after, 1, Len(before)) = before
              /\ after[Len(after)] =
                    [symbol    |-> normalize_symbol(last'.symbol),
                     quantity  |-> last'.quantity,
                     buy_price |-> last'.buy_price] ]_vars

\* a second lot of a symbol added after the first: two rows for it
C13_Witness ==
    /\ last.op = "add_holding"
    /\ Len(portfolioFile.rows) = 2
    /\ Holdings(portfolioFile)[1].symbol = Holdings(portfolioFile)[2].symbol

---------------------------------------------------------------------------
(* C14, C15: the valuation *)

\* sequence seq without its i-th element
Drop(seq, i) == SubSeq(seq, 1, i - 1) \o SubSeq(seq, i + 1, Len(seq))

\* the fraction f is zero
IsZero(f) == f.num = 0 /\ f.den # 0

\* C14: enrich_portfolio returns one entry per holding, in the same order and
\* with the same symbol, quantity and buy_price, whichever get_quote calls
\* raise; the entry of a holding whose get_quote raises has current_price
\* None, value None, pl 0, pl_percent 0 and source "local-cache"; and the
\* other entries, the cache and the history log are what they are without
\* that holding in the portfolio.
C14_FailureIsolated ==
    [][ last'.op = "enrich_portfolio" =>
          \A holdings \in { Holdings(portfolioFile) } :
          \A ret \in { last'.ret } :
              /\ Len(ret) = Len(holdings)
              /\ Len(last'.quotes) = Len(holdings)
              /\ \A i \in 1..Len(holdings) :
                    /\ ret[i].symbol = holdings[i].symbol
                    /\ ret[i].quantity = holdings[i].quantity
                    /\ ret[i].buy_price = holdings[i].buy_price
              /\ \A i \in 1..Len(holdings) :
                    last'.quotes[i].kind = "raise" =>
                        /\ ret[i].current_price = None
                        /\ ret[i].value = None
                        /\ ret[i].pl = 0
                        /\ IsZero(ret[i].pl_percent)
                        /\ ret[i].source = "local-cache"
                        /\ \A rest \in { enrich_loop(Drop(holdings, i), Drop(last'.feeds, i), 1,
                                                     clock, cacheFile, historyFile, <<>>) } :
                              /\ rest.ret = Drop(ret, i)
                              /\ rest.cacheFile = cacheFile'
                              /\ rest.historyFile = historyFile' ]_vars

\* a valuation of two holdings: the get_quote of the first raises, the second
\* is priced
C14_Witness ==
    /\ last.op = "enrich_portfolio"
    /\ Len(last.ret) = 2
    /\ last.quotes[1].kind = "raise"
    /\ last.ret[1].current_price = None
    /\ last.quotes[2].kind = "quote"
    /\ last.ret[2].current_price # None
    /\ last.ret[2].value # None

---------------------------------------------------------------------------
(* C16: the symbol normalizer over strings *)

\* the alias keys, the alias values, no symbol, a symbol that is no alias,
\* and "bitcoin" typed with dotless i
Words ==
    DOMAIN SYMBOL_ALIASES \cup { SYMBOL_ALIASES[k] : k \in DOMAIN SYMBOL_ALIASES } \cup
    { <<>>, <<"g","o","l","d">>, <<"b","U+0131","t","c","o","U+0131","n">> }

\* s with its first character in upper case
Capitalized(s) == IF s = <<>> THEN s ELSE <<UpperChar(s[1])>> \o Tail(s)

\* the strings that differ from s in letter case or surrounding whitespace
\* only
Variants(s) ==
    { pre \o t \o post :
        t \in { s, lower(s), upper(s), Capitalized(s) },
        pre \in { <<>>, <<" ">> },
        post \in { <<>>, <<" ">>, <<"\t">> } }

NormalizeInputs == UNION { Variants(w) : w \in Words }

\* every character of s is an ASCII character
IsAscii(s) == \A i \in 1..Len(s) : s[i] # "U+0131"

\* normalize_symbol(sym) is called
Normalize ==
    \E sym \in NormalizeInputs :
        /\ last' = [op |-> "normalize_symbol", symbol |-> sym, ret |-> normalize_symbol(sym)]
        /\ UNCHANGED <<cacheFile, historyFile, portfolioFile, clock>>

SpecNormalize == InitApp /\ [][Normalize]_vars

\* C16: normalize(normalize(x)) = normalize(x) for every string x, and two
\* strings that differ in letter case or surrounding whitespace only have the
\* same normal form; normalize(" btc ") = normalize("BTC") = "BTC-USD".
C16_NormalizeIdempotent ==
    last.op = "normalize_symbol" =>
        /\ normalize_symbol(last.ret) = last.ret
        /\ \A v \in Variants(last.symbol) : normalize_symbol(v) = last.ret
        /\ normalize_symbol(<<" ","b","t","c"," ">>) = <<"B","T","C","-","U","S","D">>
        /\ normalize_symbol(<<"B","T","C">>) = <<"B","T","C","-","U","S","D">>

\* C16, for ASCII strings: the same for every x made of ASCII characters.
C16_NormalizeIdempotentOnAscii ==
    (last.op = "normalize_symbol" /\ IsAscii(last.symbol)) =>
        /\ normalize_symbol(last.ret) = last.ret
        /\ \A v \in Variants(last.symbol) : normalize_symbol(v) = last.ret
        /\ normalize_symbol(<<" ","b","t","c"," ">>) = <<"B","T","C","-","U","S","D">>
        /\ normalize_symbol(<<"B","T","C">>) = <<"B","T","C","-","U","S","D">>

---------------------------------------------------------------------------
(* C17: the daily series *)

\* C17: get_daily returns a series for the symbol it was given, for every
\* symbol and range; when the upstream bar fetch raises the series is empty;
\* and the cache, the history log and the portfolio file are left as they
\* were.
C17_SeriesNeverFails ==
    [][ last'.op = "get_daily" =>
          /\ DOMAIN last'.ret = {"symbol", "points"}
          /\ last'.ret.symbol = last'.symbol
          /\ last'.raised => last'.ret.points = <<>>
          /\ cacheFile' = cacheFile
          /\ historyFile' = historyFile
          /\ portfolioFile' = portfolioFile ]_vars

\* a get_daily whose upstream raised, with a holding stored and a quote
\* cached
C17_Witness ==
    /\ last.op = "get_daily"
    /\ last.raised
    /\ last.ret.points = <<>>
    /\ portfolioFile.rows # <<>>
    /\ RecordCount(cacheFile) >= 1

---------------------------------------------------------------------------
(* C18: the cache and the history log, from empty stores *)

\* no cache file or the empty mapping, no history file or its header alone
InitFresh ==
    /\ cacheFile \in { CacheFile("absent", EmptyMap), CacheFile("map", EmptyMap) }
    /\ historyFile \in { HistoryFile(FALSE, <<>>), HistoryFile(TRUE, <<>>) }
    /\ portfolioFile = PortfolioFile(TRUE, <<>>)
    /\ clock = 0
    /\ last = [op |-> "init"]

SpecFresh == InitFresh /\ [][GetQuote]_vars

\* the cache cf holds a record for a symbol exactly when the history log hf
\* holds a row for it, and the price cached is the price of its latest row
Agree(cf, hf) ==
    \A s \in CanonSymbols :
        /\ HasRecord(cf, s) <=> HasRow(hf, s)
        /\ HasRecord(cf, s) => cf.map[s].price = hf.rows[LatestIndex(hf, s)].price

\* C18: from an empty cache and an empty history log, after any get_quote
\* calls, the cache holds a record for a symbol exactly when the log holds a
\* row for it and the price cached is the price of the latest row; a live
\* fetch that succeeds leaves its price there, and a get_quote whose live
\* fetch fails changes neither store and returns the price cached, so that
\* price is the price of the most recent live fetch that succeeded.
C18_CacheAgreesWithHistory ==
    [][ last'.op = "get_quote" =>
          \A s \in { normalize_symbol(last'.symbol) } :
              /\ Agree(cacheFile', historyFile')
              /\ last'.live.outcome = "price" =>
                    /\ HasRecord(cacheFile', s)
                    /\ cacheFile'.map[s].price = last'.live.price
              /\ LiveFailed(last'.live) =>
                    /\ cacheFile' = cacheFile
                    /\ historyFile' = historyFile
                    /\ HasRecord(cacheFile, s) =>
                          /\ last'.ret.kind = "quote"
                          /\ last'.ret.quote.price = cacheFile.map[s].price ]_vars

\* C18, for the failures the code does treat as failures: the same with the
\* upstream raising; a live attempt without a usable price is not covered.
C18_CacheAgreesWithHistoryOnRaise ==
    [][ last'.op = "get_quote" =>
          \A s \in { normalize_symbol(last'.symbol) } :
              /\ Agree(cacheFile', historyFile')
              /\ last'.live.outcome = "price" =>
                    /\ HasRecord(cacheFile', s)
                    /\ cacheFile'.map[s].price = last'.live.price
              /\ last'.live.outcome = "raise" =>
                    /\ cacheFile' = cacheFile
                    /\ historyFile' = historyFile
                    /\ HasRecord(cacheFile, s) =>
                          /\ last'.ret.kind = "quote"
                          /\ last'.ret.quote.price = cacheFile.map[s].price ]_vars

---------------------------------------------------------------------------
(* C19: what a valuation writes *)

\* the symbols of the holdings whose index hit marks, in their order
RECURSIVE SymbolsWhere(_, _, _)
SymbolsWhere(holdings, hit, i) ==
    IF i > Len(holdings) THEN <<>>
    ELSE (IF hit[i] THEN <<holdings[i].symbol>> ELSE <<>>) \o SymbolsWhere(holdings, hit, i + 1)

\* the symbols of the rows of hf from row n + 1 on
NewRowSymbols(hf, n) == [i \in 1..(Len(hf.rows) - n) |-> hf.rows[n + i].symbol]

\* what C19 says of a valuation step, hit[i] telling whether holding i had a
\* successful live fetch: one row appended per such holding, in their order,
\* and the cache mapping grown by the symbols of those holdings
WritesOnePerHit(holdings, hit) ==
    \A fetched \in { SymbolsWhere(holdings, hit, 1) } :
        /\ portfolioFile' = portfolioFile
        /\ IsPrefix(historyFile.rows, historyFile'.rows)
        /\ NewRowSymbols(historyFile', Len(historyFile.rows)) = fetched
        /\ DOMAIN cacheFile'.map =
              DOMAIN cacheFile.map \cup { fetched[i] : i \in 1..Len(fetched) }
        /\ \A i \in 1..Len(fetched) : HasRecord(cacheFile', fetched[i])

\* C19: enrich_portfolio leaves the portfolio file as it was; with k holdings
\* whose live fetch succeeds it appends k rows to the history log, one per
\* lot, and the cache ends with one record per symbol fetched; a holding
\* whose live fetch fails, resolved from the cache or the log or not at all,
\* adds no row.
C19_ValuationWritesPerLiveFetch ==
    [][ last'.op = "enrich_portfolio" =>
          \A holdings \in { Holdings(portfolioFile) } :
              WritesOnePerHit(holdings,
                  [i \in 1..Len(holdings) |-> last'.live[i].outcome = "price"]) ]_vars

\* C19, counting the quotes the live attempt built: the same with the
\* holdings whose quote came back tagged by the live attempt.
C19_ValuationWritesPerLiveQuote ==
    [][ last'.op = "enrich_portfolio" =>
          \A holdings \in { Holdings(portfolioFile) } :
              WritesOnePerHit(holdings,
                  [i \in 1..Len(holdings) |->
                      /\ last'.quotes[i].kind = "quote"
                      /\ last'.quotes[i].quote.source = "yfinance"]) ]_vars

=============================================================================
